---- MODULE Spec2Model ----
(***************************************************************************)
(* Model of the HostRegister rendezvous server: the main loop of           *)
(* src/src/main.rs running over the ENet transport of src/src/proto.rs.    *)
(*                                                                         *)
(* One tick of the loop is three steps: check_and_cleanup_clients, the     *)
(* liveness sweep (ping loop and retain), and poll_messages followed by    *)
(* the decode guards and the handler of the polled message.  The wall      *)
(* clock (SystemTime::now) advances between steps.                         *)
(*                                                                         *)
(* Spec and FairSpec are the runs of that loop on packets that fit main's  *)
(* buffer.  SendSpec is EnetHost::send_to_target on its own; UdpSpec is    *)
(* the loop over the UdpSocket transport, whose sends can return Err;      *)
(* OversizeSpec adds the packet that is longer than the buffer; SkewSpec   *)
(* lets the clock advance between the reading of poll_messages and the     *)
(* reading of the handler.  A panic leaves the loop at pc = "panicked".    *)
(***************************************************************************)
EXTENDS Integers, Sequences, FiniteSets, TLC

\* ---------------------------------------------------------------- bounds
\* The clock runs from 0 to MaxTime (seconds) and advances TimeStep at a time.
MaxTime == 40
TimeStep == 10
\* Length in bytes of every non-empty packet of the model, inbound or outbound.
MsgLen == 64

\* ------------------------------------------------------ program constants
PING_INTERVAL == 10
PEER_REMOVAL_TIMEMOUT == 30
\* main.rs:23  let mut buf = [0; 1024];
BUF_SIZE == 1024

\* Peer addresses (EnetAddr::to_string) and the identifier space of nanoid!.
Addrs == {"127.0.0.1:5001", "127.0.0.1:5002"}
Codes == {"1A", "2B"}
\* Strings a HostLookupRequest may carry as host_code: every code, the empty
\* string, and a string nanoid! never generates.
LookupStrings == Codes \cup {"", "ZZ"}
NoCode == ""
Never == 0 - 1

\* ------------------------------------------------------- serde_json::Value
\* A field value is [t, s]; a top-level value adds o, the fields of an object.
NoFields == [f \in {} |-> [t |-> "null", s |-> ""]]
FNull == [t |-> "null", s |-> ""]
FNum == [t |-> "num", s |-> ""]
FStr(str) == [t |-> "str", s |-> str]
FBool(b) == [t |-> "bool", s |-> IF b THEN "true" ELSE "false"]
JNull == [t |-> "null", s |-> "", o |-> NoFields]
JNum == [t |-> "num", s |-> "", o |-> NoFields]
JObj(fields) == [t |-> "obj", s |-> "", o |-> fields]

\* request["key"]: Value::Null unless request is an object holding the key.
Index(v, key) == IF v.t = "obj" /\ key \in DOMAIN v.o THEN v.o[key] ELSE FNull
\* request["key"] == "literal"
EqStr(f, str) == f.t = "str" /\ f.s = str
\* request["key"].as_str().unwrap_or_default()
as_str(f) == IF f.t = "str" THEN f.s ELSE ""

\* serde_json::from_str(..).unwrap_or_default(): Null for text that is no JSON.
from_str(p) == IF p.wellformed THEN p.value ELSE JNull

\* ------------------------------------------------------------- MsgType
\* serde_json::to_string of the internally tagged enum (tag = "msg_type").
PingResponse == [msg_type |-> FStr("PingResponse")]
HostRegisterResponse(code) ==
    [msg_type |-> FStr("HostRegisterResponse"), host_code |-> FStr(code)]
HostLookupResponse(ok, info) ==
    [msg_type |-> FStr("HostLookupResponse"), success |-> FBool(ok),
     host_info |-> FStr(info)]
ClientLookupResponse(info) ==
    [msg_type |-> FStr("ClientLookupResponse"), client_info |-> FStr(info)]

\* One call of send_to_target(data, target).
Send(target, msg) == [to |-> target, msg |-> msg]

\* ------------------------------------------------------- inbound packets
MsgTypeFields ==
    {FNull, FNum} \cup
    {FStr(s) : s \in {"PingRequest", "HostRegisterRequest", "HostLookupRequest",
                      "PingResponse"}}
HostCodeFields == {FNum} \cup {FStr(s) : s \in LookupStrings}
Objects ==
    {[msg_type |-> m] : m \in MsgTypeFields}
    \cup {[host_code |-> FStr("1A")]}
    \cup {[msg_type |-> FStr("HostLookupRequest"), host_code |-> c] :
             c \in HostCodeFields}
Values == {JNull, JNum} \cup {JObj(o) : o \in Objects}
Packets ==
    {[len |-> 0, utf8 |-> TRUE, wellformed |-> FALSE, value |-> JNull],
     [len |-> MsgLen, utf8 |-> FALSE, wellformed |-> FALSE, value |-> JNull],
     [len |-> MsgLen, utf8 |-> TRUE, wellformed |-> FALSE, value |-> JNull]}
    \cup {[len |-> MsgLen, utf8 |-> TRUE, wellformed |-> TRUE, value |-> v] :
             v \in Values}

NoPacket == [len |-> 0, utf8 |-> TRUE, wellformed |-> FALSE, value |-> JNull]
NoEvent == [type |-> "none", addr |-> "", packet |-> NoPacket]

\* Result<usize, Error> of send_to_target.
Ok(n) == [ok |-> TRUE, n |-> n]
Err == [ok |-> FALSE, n |-> 0]
NoRet == [ok |-> TRUE, n |-> 0 - 1]

\* ---------------------------------------------------------------- state
VARIABLES
    host_register,      \* main.rs:20  id -> Host
    host_map,           \* main.rs:21  addr -> id
    peers,              \* addresses of the connected ENet peers (sock.peers())
    peer_activity_map,  \* proto.rs:85 addr -> time of last activity
    now,                \* SystemTime::now()
    pc,                 \* position of the loop: "cleanup", "sweep", "poll";
                        \*   "panicked" once a panic has ended the process
    event,              \* what the last poll_messages of this tick returned
    sent,               \* the send_to_target calls of the last step, in order
    ret,                \* what the last send_to_target call returned, where the
                        \*   caller can tell: main unwraps the value and drops it
    issued,             \* history: addr -> code of the last HostRegisterResponse
                        \*   sent to addr since its host was last evicted
    refreshed,          \* history: addr -> time of the last PingRequest (from a
                        \*   registered addr) or HostRegisterRequest dispatched
    evicted,            \* history: codes of the hosts a sweep found timed out,
                        \*   until the code is assigned again
    dropped             \* history: the peers the last check_and_cleanup_clients
                        \*   disconnected

vars == <<host_register, host_map, peers, peer_activity_map, now, pc, event,
          sent, ret, issued, refreshed, evicted, dropped>>

\* Restriction of a function to the part of its domain in S.
Restrict(f, S) == [x \in (DOMAIN f) \cap S |-> f[x]]
\* f with key mapped to val (HashMap::insert).
Insert(f, key, val) == [x \in (DOMAIN f) \cup {key} |-> IF x = key THEN val ELSE f[x]]
\* f without key (HashMap::remove).
Remove(f, key) == Restrict(f, (DOMAIN f) \ {key})

\* All orders in which a HashMap iteration may visit the keys in S.
Orders(S) ==
    {q \in [1..Cardinality(S) -> S] : \A i, j \in 1..Cardinality(S) : q[i] = q[j] => i = j}

Init ==
    /\ host_register = [i \in {} |-> 0]
    /\ host_map = [a \in {} |-> ""]
    /\ peers = {}
    /\ peer_activity_map = [a \in {} |-> 0]
    /\ now = 0
    /\ pc = "cleanup"
    /\ event = NoEvent
    /\ sent = <<>>
    /\ ret = NoRet
    /\ issued = [a \in Addrs |-> NoCode]
    /\ refreshed = [a \in Addrs |-> Never]
    /\ evicted = {}
    /\ dropped = {}

\* ------------------------------------------------------------ the clock
AdvanceTime ==
    /\ now + TimeStep <= MaxTime
    /\ now' = now + TimeStep
    /\ UNCHANGED <<dropped, host_register, host_map, peers, peer_activity_map, pc, event,
                   sent, ret, issued, refreshed, evicted>>

\* --------------------------------------------- check_and_cleanup_clients
\* Mutant: a peer is idle as soon as its entry is the removal timeout old.
IdlePeers_AtTimeout(prs, act, t) ==
    {a \in prs : a \in DOMAIN act /\ t - act[a] >= PEER_REMOVAL_TIMEMOUT}
\* Peers whose activity entry is older than the removal timeout.
IdlePeers(prs, act, t) ==
    {a \in prs : a \in DOMAIN act /\ t - act[a] > PEER_REMOVAL_TIMEMOUT}

check_and_cleanup_clients ==
    /\ pc = "cleanup"
    /\ LET idle == IdlePeers(peers, peer_activity_map, now)
       IN /\ peers' = peers \ idle
          /\ peer_activity_map' =
                 Restrict(peer_activity_map, (DOMAIN peer_activity_map) \ idle)
          /\ dropped' = idle
    /\ pc' = "sweep"
    /\ event' = NoEvent
    /\ sent' = <<>>
    /\ UNCHANGED <<host_register, host_map, now, ret, issued, refreshed, evicted>>

\* ------------------------------------------------------ the liveness sweep
\* Mutant: a ping is due as soon as the interval has elapsed.
should_send_ping_AtInterval(h, t) == t - h.last_sent_ping >= PING_INTERVAL
\* Host::should_send_ping: the test; SweepHost applies its assignment.
should_send_ping(h, t) == t - h.last_sent_ping > PING_INTERVAL
\* Mutant: the comparison is strict.
should_be_removed_Strict(h, t) == t - h.last_received_ping > PEER_REMOVAL_TIMEMOUT
\* Host::should_be_removed: the value it stores in delete_later and returns.
should_be_removed(h, t) == t - h.last_received_ping >= PEER_REMOVAL_TIMEMOUT

\* One iteration of the ping loop on host h at time t.
SweepHost(h, t) ==
    [h EXCEPT !.last_sent_ping = IF should_send_ping(h, t) THEN t ELSE @,
              !.delete_later = should_be_removed(h, t)]
\* Mutant: the ping loop only pings, it marks no host for removal.
PingLoop_PingsOnly(reg, t) ==
    [i \in DOMAIN reg |->
        [reg[i] EXCEPT !.last_sent_ping = IF should_send_ping(reg[i], t) THEN t ELSE @]]
\* host_register after the ping loop.
PingLoop(reg, t) == [i \in DOMAIN reg |-> SweepHost(reg[i], t)]
\* Addresses of the hosts the ping loop marked.
TimedOut(reg) == {reg[i].addr : i \in {j \in DOMAIN reg : reg[j].delete_later}}
\* host_map after the ping loop: host_map.remove(&host.addr) for each marked host.
MapAfterPingLoop(map, reg) == Restrict(map, (DOMAIN map) \ TimedOut(reg))
\* Mutant: the timed-out hosts leave host_map only, retain drops nothing.
Retain_KeepsAll(reg) == reg
\* host_register.retain(|_, host| !host.delete_later)
Retain(reg) == Restrict(reg, {i \in DOMAIN reg : ~reg[i].delete_later})
\* peer.disconnect_now(0) on the peer of every host retain drops.
DisconnectTimedOut(prs, reg) == prs \ TimedOut(reg)

Sweep ==
    /\ pc = "sweep"
    /\ LET due == {i \in DOMAIN host_register : should_send_ping(host_register[i], now)}
           reg1 == PingLoop(host_register, now)
           reg2 == Retain(reg1)
           gone == {i \in DOMAIN reg1 : reg1[i].delete_later}
           goneAddrs == TimedOut(reg1)
       IN /\ \E q \in Orders(due) :
                 sent' = [k \in 1..Cardinality(due) |->
                              Send(host_register[q[k]].addr, PingResponse)]
          /\ host_map' = MapAfterPingLoop(host_map, reg1)
          /\ host_register' = reg2
          /\ peers' = DisconnectTimedOut(peers, reg1)
          /\ issued' = [a \in Addrs |-> IF a \in goneAddrs THEN NoCode ELSE issued[a]]
          /\ refreshed' = [a \in Addrs |-> IF a \in goneAddrs THEN Never ELSE refreshed[a]]
          /\ evicted' = evicted \cup gone
    /\ pc' = "poll"
    /\ UNCHANGED <<dropped, peer_activity_map, now, event, ret>>

\* ---------------------------------------------------------- poll_messages
\* sock.service(0) has no event: poll_messages returns (0, "") and main continues.
PollNone ==
    /\ pc = "poll"
    /\ pc' = "cleanup"
    /\ event' = NoEvent
    /\ sent' = <<>>
    /\ UNCHANGED <<dropped, host_register, host_map, peers, peer_activity_map, now, ret,
                   issued, refreshed, evicted>>

\* Event::Connect(peer)
PollConnect(a) ==
    /\ pc = "poll"
    /\ a \notin peers
    /\ peers' = peers \cup {a}
    /\ peer_activity_map' = Insert(peer_activity_map, a, now)
    /\ pc' = "cleanup"
    /\ event' = [type |-> "connect", addr |-> a, packet |-> NoPacket]
    /\ sent' = <<>>
    /\ UNCHANGED <<dropped, host_register, host_map, now, ret, issued, refreshed, evicted>>

\* Event::Disconnect(peer, _)
PollDisconnect(a) ==
    /\ pc = "poll"
    /\ a \in peers
    /\ peers' = peers \ {a}
    /\ peer_activity_map' = Remove(peer_activity_map, a)
    /\ pc' = "cleanup"
    /\ event' = [type |-> "disconnect", addr |-> a, packet |-> NoPacket]
    /\ sent' = <<>>
    /\ UNCHANGED <<dropped, host_register, host_map, now, ret, issued, refreshed, evicted>>

\* ------------------------------------------------------- the decode guards
\* main.rs:61-76: the packet reaches the handler chain.
Decodes(p) ==
    /\ p.len # 0
    /\ p.utf8
    /\ from_str(p).t # "null"
    /\ Index(from_str(p), "msg_type") # FNull
\* Mutant: the PingRequest branch is the chain's final else.
MsgTypeIs_PingIsElse(p, name) ==
    /\ Decodes(p)
    /\ IF name = "PingRequest"
       THEN /\ ~EqStr(Index(from_str(p), "msg_type"), "HostRegisterRequest")
            /\ ~EqStr(Index(from_str(p), "msg_type"), "HostLookupRequest")
       ELSE EqStr(Index(from_str(p), "msg_type"), name)
MsgTypeIs(p, name) == Decodes(p) /\ EqStr(Index(from_str(p), "msg_type"), name)
Handled == {"PingRequest", "HostRegisterRequest", "HostLookupRequest"}

\* ------------------------------------------------------------ the handlers
\* Each handler yields the registers and the sends it leaves behind.
Outcome(reg, map, act, out) == [reg |-> reg, map |-> map, act |-> act, out |-> out]

\* Mutant: the handler answers without looking the sender up in host_map.
PingRequest_AnswersAnyone(reg, map, act, addr, t) ==
    IF addr \in DOMAIN map /\ map[addr] \in DOMAIN reg
    THEN Outcome([reg EXCEPT ![map[addr]].last_received_ping = t], map, act,
                 <<Send(addr, PingResponse)>>)
    ELSE Outcome(reg, map, act, <<Send(addr, PingResponse)>>)
\* Mutant: the handler answers but does not bump last_received_ping.
PingRequest_NoTouch(reg, map, act, addr, t) ==
    IF addr \in DOMAIN map /\ map[addr] \in DOMAIN reg
    THEN Outcome(reg, map, act, <<Send(addr, PingResponse)>>)
    ELSE Outcome(reg, map, act, <<>>)
\* Mutant: the handler bumps last_sent_ping along with last_received_ping.
PingRequest_TouchesBoth(reg, map, act, addr, t) ==
    IF addr \in DOMAIN map /\ map[addr] \in DOMAIN reg
    THEN Outcome([reg EXCEPT ![map[addr]].last_received_ping = t,
                             ![map[addr]].last_sent_ping = t], map, act,
                 <<Send(addr, PingResponse)>>)
    ELSE Outcome(reg, map, act, <<>>)
\* main.rs:78-94
PingRequest(reg, map, act, addr, t) ==
    IF addr \notin DOMAIN map THEN Outcome(reg, map, act, <<>>)
    ELSE IF map[addr] \in DOMAIN reg
         THEN Outcome([reg EXCEPT ![map[addr]].last_received_ping = t], map, act,
                      <<Send(addr, PingResponse)>>)
         ELSE Outcome(reg, map, act, <<>>)

\* Mutant: the first draw is used without the collision retry.
GenerateId_NoRetry(reg, id0, id1) == id0
\* main.rs:97, 105-107: id0 is the first nanoid! draw, id1 the draw that ends the
\* retry loop when id0 collides.
GenerateId(reg, id0, id1) == IF id0 \in DOMAIN reg THEN id1 ELSE id0

\* The draws that can end the retry loop of main.rs:105-107: an id not in
\* host_register; the loop is not entered when addr is in host_map.
RetryDraws(reg, map, addr) == IF addr \in DOMAIN map THEN Codes ELSE Codes \ DOMAIN reg

NewHost(id, addr, t) ==
    [id |-> id, addr |-> addr, last_sent_ping |-> t, last_received_ping |-> t,
     delete_later |-> FALSE]

\* Mutant: every request inserts a new host, host_map is not consulted.
HostRegisterRequest_NoMapCheck(reg, map, act, addr, t, id0, id1) ==
    LET id == IF id0 \in DOMAIN reg THEN id1 ELSE id0
    IN [reg |-> Insert(reg, id, NewHost(id, addr, t)), map |-> Insert(map, addr, id),
        act |-> Remove(act, addr), out |-> <<Send(addr, HostRegisterResponse(id))>>]
\* main.rs:96-132
HostRegisterRequest(reg, map, act, addr, t, id0, id1) ==
    IF addr \in DOMAIN map
    THEN LET id == map[addr]
         IN Outcome(IF id \in DOMAIN reg
                    THEN [reg EXCEPT ![id].last_received_ping = t] ELSE reg,
                    map, act, <<Send(addr, HostRegisterResponse(id))>>)
    ELSE LET id == GenerateId(reg, id0, id1)
         IN Outcome(Insert(reg, id, NewHost(id, addr, t)), Insert(map, addr, id),
                    Remove(act, addr), <<Send(addr, HostRegisterResponse(id))>>)

\* Mutant: the two replies go to each other's destination.
HostLookupRequest_SwappedTargets(reg, map, act, addr, request) ==
    LET id_to_find == as_str(Index(request, "host_code"))
        failure == Send(addr, HostLookupResponse(FALSE, ""))
    IN IF id_to_find = "" \/ id_to_find \notin DOMAIN reg
       THEN [reg |-> reg, map |-> map, act |-> act, out |-> <<failure>>]
       ELSE [reg |-> reg, map |-> map, act |-> act,
             out |-> <<Send(addr, ClientLookupResponse(addr)),
                       Send(reg[id_to_find].addr,
                            HostLookupResponse(TRUE, reg[id_to_find].addr))>>]
\* Mutant: a miss in host_register sends no reply.
HostLookupRequest_SilentMiss(reg, map, act, addr, request) ==
    LET id_to_find == as_str(Index(request, "host_code"))
    IN IF id_to_find = ""
       THEN [reg |-> reg, map |-> map, act |-> act,
             out |-> <<Send(addr, HostLookupResponse(FALSE, ""))>>]
       ELSE IF id_to_find \in DOMAIN reg
            THEN [reg |-> reg, map |-> map, act |-> act,
                  out |-> <<Send(reg[id_to_find].addr, ClientLookupResponse(addr)),
                            Send(addr, HostLookupResponse(TRUE, reg[id_to_find].addr))>>]
            ELSE [reg |-> reg, map |-> map, act |-> act, out |-> <<>>]
\* Mutant: a successful lookup uses the host up: it is dropped from both maps.
HostLookupRequest_TakesHost(reg, map, act, addr, request) ==
    LET id_to_find == as_str(Index(request, "host_code"))
        failure == Send(addr, HostLookupResponse(FALSE, ""))
    IN IF id_to_find = "" \/ id_to_find \notin DOMAIN reg
       THEN [reg |-> reg, map |-> map, act |-> act, out |-> <<failure>>]
       ELSE [reg |-> Remove(reg, id_to_find),
             map |-> Remove(map, reg[id_to_find].addr), act |-> act,
             out |-> <<Send(reg[id_to_find].addr, ClientLookupResponse(addr)),
                       Send(addr, HostLookupResponse(TRUE, reg[id_to_find].addr))>>]
\* main.rs:134-171
HostLookupRequest(reg, map, act, addr, request) ==
    LET id_to_find == as_str(Index(request, "host_code"))
        failure == Send(addr, HostLookupResponse(FALSE, ""))
    IN IF id_to_find = "" THEN Outcome(reg, map, act, <<failure>>)
       ELSE IF id_to_find \in DOMAIN reg
            THEN Outcome(reg, map, act,
                         <<Send(reg[id_to_find].addr, ClientLookupResponse(addr)),
                           Send(addr, HostLookupResponse(TRUE, reg[id_to_find].addr))>>)
            ELSE Outcome(reg, map, act, <<failure>>)

\* Event::Receive from peer a with packet p: poll_messages records the activity
\* and returns (len, addr); r is what the rest of the tick leaves behind.
Receive(a, p, r) ==
    /\ pc = "poll"
    /\ a \in peers
    /\ host_register' = r.reg
    /\ host_map' = r.map
    /\ peer_activity_map' = r.act
    /\ sent' = r.out
    /\ pc' = "cleanup"
    /\ event' = [type |-> "receive", addr |-> a, packet |-> p]
    /\ UNCHANGED <<dropped, peers, now, ret>>

\* A packet one of the decode guards drops (main.rs:61-76).
RecvDropped(a, p) ==
    /\ ~Decodes(p)
    /\ Receive(a, p, Outcome(host_register, host_map,
                             Insert(peer_activity_map, a, now), <<>>))
    /\ UNCHANGED <<issued, refreshed, evicted>>

\* A msg_type no branch of the handler chain matches: the loop body ends.
RecvUnhandled(a, p) ==
    /\ Decodes(p)
    /\ \A name \in Handled : ~MsgTypeIs(p, name)
    /\ Receive(a, p, Outcome(host_register, host_map,
                             Insert(peer_activity_map, a, now), <<>>))
    /\ UNCHANGED <<issued, refreshed, evicted>>

RecvPing(a, p) ==
    /\ MsgTypeIs(p, "PingRequest")
    /\ Receive(a, p, PingRequest(host_register, host_map,
                                 Insert(peer_activity_map, a, now), a, now))
    /\ refreshed' = IF a \in DOMAIN host_map THEN [refreshed EXCEPT ![a] = now]
                    ELSE refreshed
    /\ UNCHANGED <<issued, evicted>>

RecvRegister(a, p) ==
    /\ MsgTypeIs(p, "HostRegisterRequest")
    /\ \E id0 \in Codes, id1 \in RetryDraws(host_register, host_map, a) :
          LET r == HostRegisterRequest(host_register, host_map,
                                       Insert(peer_activity_map, a, now), a, now, id0, id1)
              code == r.out[1].msg.host_code.s
              fresh == (DOMAIN r.reg) \ (DOMAIN host_register)
          IN /\ Receive(a, p, r)
             /\ issued' = [issued EXCEPT ![a] = code]
             /\ evicted' = evicted \ fresh
    /\ refreshed' = [refreshed EXCEPT ![a] = now]

RecvLookup(a, p) ==
    /\ MsgTypeIs(p, "HostLookupRequest")
    /\ LET r == HostLookupRequest(host_register, host_map,
                                  Insert(peer_activity_map, a, now), a, from_str(p))
       IN Receive(a, p, r)
    /\ UNCHANGED <<issued, refreshed, evicted>>

Next ==
    \/ AdvanceTime
    \/ check_and_cleanup_clients
    \/ Sweep
    \/ PollNone
    \/ \E a \in Addrs : PollConnect(a)
    \/ \E a \in Addrs : PollDisconnect(a)
    \/ \E a \in Addrs, p \in Packets : RecvDropped(a, p)
    \/ \E a \in Addrs, p \in Packets : RecvUnhandled(a, p)
    \/ \E a \in Addrs, p \in Packets : RecvPing(a, p)
    \/ \E a \in Addrs, p \in Packets : RecvRegister(a, p)
    \/ \E a \in Addrs, p \in Packets : RecvLookup(a, p)

Spec == Init /\ [][Next]_vars

\* The loop never blocks: the cleanup and the sweep run to completion, and
\* poll_messages returns at once, with (0, "") when sock.service(0) has no event.
\* So at every position of the loop a step is eventually taken.
FairSpec ==
    Spec /\ WF_vars(check_and_cleanup_clients) /\ WF_vars(Sweep) /\ WF_vars(PollNone)

\* ------------------------------------------------------------- the claims
\* The step just taken polled and dispatched a packet of the given msg_type.
Dispatching(name) ==
    /\ pc = "poll" /\ pc' = "cleanup"
    /\ event'.type = "receive"
    /\ event'.packet.len > 0 /\ event'.packet.utf8 /\ event'.packet.wellformed
    /\ event'.packet.value.t = "obj"
    /\ "msg_type" \in DOMAIN event'.packet.value.o
    /\ event'.packet.value.o.msg_type = FStr(name)
\* The last step of the tick dispatched a packet of the given msg_type.
Dispatched(name) ==
    /\ pc = "cleanup"
    /\ event.type = "receive"
    /\ event.packet.len > 0 /\ event.packet.utf8 /\ event.packet.wellformed
    /\ event.packet.value.t = "obj"
    /\ "msg_type" \in DOMAIN event.packet.value.o
    /\ event.packet.value.o.msg_type = FStr(name)
\* The host_code string a dispatched HostLookupRequest asks for ("" when the
\* field is absent or no string).
CodeOf(p) ==
    IF "host_code" \in DOMAIN p.value.o /\ p.value.o.host_code.t = "str"
    THEN p.value.o.host_code.s ELSE ""
HostsAt(reg, a) == {i \in DOMAIN reg : reg[i].addr = a}
Failure(a) == Send(a, HostLookupResponse(FALSE, ""))

\* C1: a HostRegisterRequest dispatched from an address that already got a
\* HostRegisterResponse, with no eviction of its host since, is answered with
\* the same host_code, and host_register then holds exactly one Host with that
\* address and no new Host.
C1_RegisterIdempotent ==
    [][\A a \in Addrs :
          (Dispatching("HostRegisterRequest") /\ event'.addr = a /\ issued[a] # NoCode)
          => /\ sent' = <<Send(a, HostRegisterResponse(issued[a]))>>
             /\ Cardinality(HostsAt(host_register', a)) = 1
             /\ DOMAIN host_register' = DOMAIN host_register]_vars
\* A repeated registration has been answered: the host predates this tick.
C1_Witness ==
    /\ Dispatched("HostRegisterRequest")
    /\ event.addr \in DOMAIN host_map
    /\ host_map[event.addr] \in DOMAIN host_register
    /\ host_register[host_map[event.addr]].last_received_ping = now
    /\ host_register[host_map[event.addr]].last_sent_ping < now
    /\ sent = <<Send(event.addr, HostRegisterResponse(host_map[event.addr]))>>

\* C2: after every sweep and every handler, host_map and host_register are
\* mutually consistent and one-to-one: host_map[a] = i iff host_register[i]
\* exists with addr = a and id = i (so one live host per address at most, and
\* distinct addresses hold distinct codes).
C2_RegistryConsistent ==
    /\ \A a \in DOMAIN host_map :
          /\ host_map[a] \in DOMAIN host_register
          /\ host_register[host_map[a]].addr = a
          /\ host_register[host_map[a]].id = host_map[a]
    /\ \A i \in DOMAIN host_register :
          /\ host_register[i].id = i
          /\ host_register[i].addr \in DOMAIN host_map
          /\ host_map[host_register[i].addr] = i
    /\ \A a, b \in DOMAIN host_map : a # b => host_map[a] # host_map[b]
    /\ \A a \in Addrs : Cardinality(HostsAt(host_register, a)) <= 1
\* Two hosts are registered when a message is about to be dispatched, after
\* sweeps that ran past the removal timeout; one was refreshed since then.
C2_Witness ==
    /\ pc = "poll"
    /\ Cardinality(DOMAIN host_map) = 2
    /\ Cardinality(DOMAIN host_register) = 2
    /\ now >= PEER_REMOVAL_TIMEMOUT
    /\ \E a \in DOMAIN host_map :
          host_register[host_map[a]].last_received_ping >= PEER_REMOVAL_TIMEMOUT

\* C3: a sweep removes from host_register and host_map every host whose
\* last_received_ping is at least the removal timeout old; and since the loop
\* never blocks, a host that is that old is eventually evicted unless it is
\* refreshed first.
TimedOutHost(i) ==
    /\ i \in DOMAIN host_register
    /\ now - host_register[i].last_received_ping >= PEER_REMOVAL_TIMEMOUT
C3_SweepEvicts ==
    /\ [][\A i \in DOMAIN host_register :
             (pc = "sweep" /\ pc' = "poll" /\ TimedOutHost(i))
             => /\ i \notin DOMAIN host_register'
                /\ host_register[i].addr \notin DOMAIN host_map']_vars
    /\ \A i \in Codes : TimedOutHost(i) ~> ~TimedOutHost(i)
\* A sweep has just evicted a host and left another one registered.
C3_Witness ==
    /\ pc = "poll"
    /\ evicted # {}
    /\ evicted \cap DOMAIN host_register = {}
    /\ DOMAIN host_register # {}
    /\ \A i \in DOMAIN host_register :
          host_register[i].last_received_ping > 0

\* C4: a registered host whose address had a PingRequest or a
\* HostRegisterRequest dispatched less than the removal timeout ago stays in
\* host_map and host_register under the same id, whatever step is taken.
C4_RefreshedHostStays ==
    [][\A a \in Addrs :
          (/\ a \in DOMAIN host_map
           /\ refreshed[a] # Never
           /\ now - refreshed[a] < PEER_REMOVAL_TIMEMOUT)
          => /\ a \in DOMAIN host_map'
             /\ host_map'[a] = host_map[a]
             /\ host_map[a] \in DOMAIN host_register'
             /\ host_register'[host_map[a]].addr = a
             /\ host_register'[host_map[a]].id = host_map[a]]_vars
\* A sweep has run on a host that a PingRequest refreshed some time ago, less
\* than the removal timeout, after its registration: the host is still there.
C4_Witness ==
    /\ pc = "poll"
    /\ \E a \in DOMAIN host_map :
          /\ refreshed[a] # Never
          /\ now > refreshed[a]
          /\ now - refreshed[a] < PEER_REMOVAL_TIMEMOUT
          /\ now >= PEER_REMOVAL_TIMEMOUT
          /\ issued[a] = host_map[a]
          /\ host_register[host_map[a]].last_received_ping = refreshed[a]
          /\ host_register[host_map[a]].last_sent_ping < refreshed[a]

\* C5: a HostLookupRequest for the id of a registered host sends exactly two
\* messages: HostLookupResponse{success:true, host_info:<host addr>} to the
\* requester and ClientLookupResponse{client_info:<requester>} to the host.
C5_LookupHit ==
    [][\A a \in Addrs, c \in DOMAIN host_register :
          (Dispatching("HostLookupRequest") /\ event'.addr = a
           /\ CodeOf(event'.packet) = c)
          => /\ Len(sent') = 2
             /\ \E k \in 1..2 :
                   /\ sent'[k] = Send(a, HostLookupResponse(TRUE, host_register[c].addr))
                   /\ sent'[3 - k] = Send(host_register[c].addr, ClientLookupResponse(a))]_vars
\* A lookup from one peer has resolved the host registered from another.
C5_Witness ==
    /\ Dispatched("HostLookupRequest")
    /\ CodeOf(event.packet) \in DOMAIN host_register
    /\ host_register[CodeOf(event.packet)].addr # event.addr
    /\ Len(sent) = 2

\* C6: a HostLookupRequest whose host_code is empty, absent or the id of no
\* registered host sends exactly one message, the failure response, to the
\* requester; the reply is the same in all three cases.
C6_LookupMiss ==
    [][\A a \in Addrs :
          (Dispatching("HostLookupRequest") /\ event'.addr = a
           /\ CodeOf(event'.packet) \notin DOMAIN host_register)
          => sent' = <<Failure(a)>>]_vars
\* A lookup of a code that names no host, while a host is registered under
\* another code, has been answered with the failure response.
C6_Witness ==
    /\ Dispatched("HostLookupRequest")
    /\ CodeOf(event.packet) # ""
    /\ CodeOf(event.packet) \notin DOMAIN host_register
    /\ DOMAIN host_register # {}
    /\ sent = <<Failure(event.addr)>>

\* C7: a PingRequest from an address that owns no host sends nothing and
\* leaves host_register and host_map unchanged.
C7_PingUnregistered ==
    [][\A a \in Addrs :
          (Dispatching("PingRequest") /\ event'.addr = a /\ a \notin DOMAIN host_map)
          => /\ sent' = <<>>
             /\ host_register' = host_register
             /\ host_map' = host_map]_vars
\* A ping from a peer that owns no host was dispatched while another peer
\* owns one.
C7_Witness ==
    /\ Dispatched("PingRequest")
    /\ event.addr \notin DOMAIN host_map
    /\ DOMAIN host_map # {}
    /\ sent = <<>>

\* C8: a PingRequest from an address that owns a host sends exactly one
\* PingResponse, to the sender, and changes nothing but that host's
\* last_received_ping, which becomes the current time.
C8_PingRegistered ==
    [][\A a \in DOMAIN host_map :
          (Dispatching("PingRequest") /\ event'.addr = a)
          => /\ sent' = <<Send(a, PingResponse)>>
             /\ host_map' = host_map
             /\ host_register' =
                    [host_register EXCEPT ![host_map[a]].last_received_ping = now]]_vars
\* A ping has refreshed a host registered earlier, with another host present.
C8_Witness ==
    /\ Dispatched("PingRequest")
    /\ event.addr \in DOMAIN host_map
    /\ Cardinality(DOMAIN host_register) = 2
    /\ host_register[host_map[event.addr]].last_received_ping = now
    /\ host_register[host_map[event.addr]].last_sent_ping < now
    /\ sent = <<Send(event.addr, PingResponse)>>

\* C9: a packet that is not valid UTF-8, not valid JSON, JSON without a
\* msg_type field, or whose msg_type names no handled variant, sends nothing
\* and leaves host_register and host_map unchanged.
Malformed(p) ==
    /\ p.len > 0
    /\ \/ ~p.utf8
       \/ ~p.wellformed
       \/ p.value.t # "obj"
       \/ "msg_type" \notin DOMAIN p.value.o
       \/ p.value.o.msg_type \notin {FStr(name) : name \in Handled}
C9_MalformedDropped ==
    [][(pc = "poll" /\ pc' = "cleanup" /\ event'.type = "receive"
        /\ Malformed(event'.packet))
       => /\ sent' = <<>>
          /\ host_register' = host_register
          /\ host_map' = host_map]_vars
\* A registered host has sent a well-formed object whose msg_type names no
\* handled variant, and nothing was sent back.
C9_Witness ==
    /\ pc = "cleanup"
    /\ event.type = "receive"
    /\ Malformed(event.packet)
    /\ event.packet.wellformed
    /\ event.packet.value.t = "obj"
    /\ "msg_type" \in DOMAIN event.packet.value.o
    /\ event.packet.value.o.msg_type.t = "str"
    /\ event.addr \in DOMAIN host_map
    /\ sent = <<>>

\* C10: a HostLookupRequest for the code of a host that a sweep evicted, and
\* that no later registration was assigned, gets the failure response and
\* nothing else is sent.
C10_EvictedLookupFails ==
    [][\A a \in Addrs, c \in evicted :
          (Dispatching("HostLookupRequest") /\ event'.addr = a
           /\ CodeOf(event'.packet) = c)
          => sent' = <<Failure(a)>>]_vars
\* A lookup of an evicted code has failed, from a peer that owns no host.
C10_Witness ==
    /\ Dispatched("HostLookupRequest")
    /\ CodeOf(event.packet) \in evicted
    /\ event.addr \notin DOMAIN host_map
    /\ sent = <<Failure(event.addr)>>

\* --------------------------------------------- EnetHost::send_to_target
\* Number of bytes of the serialised message handed to send_to_target.
DataLen(msg) == MsgLen
\* An address no peer ever connects from.
OutsideAddr == "127.0.0.1:5003"
\* Every message main serialises.
Replies ==
    {PingResponse, HostLookupResponse(FALSE, "")}
    \cup {HostRegisterResponse(c) : c \in Codes}
    \cup {HostLookupResponse(TRUE, a) : a \in Addrs}
    \cup {ClientLookupResponse(a) : a \in Addrs}

\* proto.rs:157-172: the loop over sock.peers() returns from the first peer whose
\* address is target, Ok(len) when send_packet succeeded (delivered) and Ok(0)
\* when it failed; when the loop ends without a match the function returns
\* Ok(buf.len()).
send_to_target(prs, target, len, delivered) ==
    IF target \in prs
    THEN IF delivered THEN Ok(len) ELSE Ok(0)
    ELSE Ok(len)

\* The function on its own: any set of connected peers, then one call after
\* another with any message, any target and either outcome of send_packet.
SendInit ==
    /\ host_register = [i \in {} |-> 0]
    /\ host_map = [a \in {} |-> ""]
    /\ peers \in SUBSET Addrs
    /\ peer_activity_map = [a \in peers |-> 0]
    /\ now = 0
    /\ pc = "send"
    /\ event = NoEvent
    /\ sent = <<>>
    /\ ret = NoRet
    /\ issued = [a \in Addrs |-> NoCode]
    /\ refreshed = [a \in Addrs |-> Never]
    /\ evicted = {}
    /\ dropped = {}
SendCall(target, msg, delivered) ==
    /\ pc = "send"
    /\ sent' = <<Send(target, msg)>>
    /\ ret' = send_to_target(peers, target, DataLen(msg), delivered)
    /\ UNCHANGED <<dropped, host_register, host_map, peers, peer_activity_map, now, pc, event,
                   issued, refreshed, evicted>>
SendNext ==
    \E target \in Addrs \cup {OutsideAddr}, msg \in Replies, delivered \in BOOLEAN :
        SendCall(target, msg, delivered)
SendSpec == SendInit /\ [][SendNext]_vars

\* C11: on ENet, send_to_target to an address for which no peer connection
\* exists returns Ok(0): success, and zero bytes sent.
C11_NoPeerReturnsZero ==
    (pc = "send" /\ sent # <<>> /\ sent[1].to \notin peers) => ret = Ok(0)

\* ------------------------------------- the loop over the UdpSocket transport
\* proto.rs:61-69: try_send_to either sends the datagram (io_ok) or fails, and
\* its error is returned to the caller.
UdpSocket_send_to_target(len, io_ok) == IF io_ok THEN Ok(len) ELSE Err

\* main.rs:61-171: the decode guards and the handler chain on one polled packet.
Dispatch(reg, map, act, addr, t, p, id0, id1) ==
    IF ~Decodes(p) THEN Outcome(reg, map, act, <<>>)
    ELSE IF MsgTypeIs(p, "PingRequest") THEN PingRequest(reg, map, act, addr, t)
    ELSE IF MsgTypeIs(p, "HostRegisterRequest")
         THEN HostRegisterRequest(reg, map, act, addr, t, id0, id1)
    ELSE IF MsgTypeIs(p, "HostLookupRequest")
         THEN HostLookupRequest(reg, map, act, addr, from_str(p))
    ELSE Outcome(reg, map, act, <<>>)

\* The nanoid! draws the dispatch of packet p from a makes: none unless the
\* packet reaches the HostRegisterRequest branch.
Draws(reg, map, a, p) ==
    IF MsgTypeIs(p, "HostRegisterRequest")
    THEN Codes \X RetryDraws(reg, map, a) ELSE {<<NoCode, NoCode>>}

\* The history variables after packet p from a was dispatched at time t with
\* outcome r.
History(a, p, r, t) ==
    /\ issued' = IF MsgTypeIs(p, "HostRegisterRequest")
                 THEN [issued EXCEPT ![a] = r.out[1].msg.host_code.s] ELSE issued
    /\ refreshed' = IF \/ MsgTypeIs(p, "HostRegisterRequest")
                       \/ MsgTypeIs(p, "PingRequest") /\ a \in DOMAIN host_map
                    THEN [refreshed EXCEPT ![a] = t] ELSE refreshed
    /\ evicted' = evicted \ ((DOMAIN r.reg) \ (DOMAIN host_register))

\* The socket is a UdpSocket (main.rs:12): there are no peers and no activity
\* map, and a tick is the sweep followed by the poll.
UdpInit ==
    /\ host_register = [i \in {} |-> 0]
    /\ host_map = [a \in {} |-> ""]
    /\ peers = {}
    /\ peer_activity_map = [a \in {} |-> 0]
    /\ now = 0
    /\ pc = "sweep"
    /\ event = NoEvent
    /\ sent = <<>>
    /\ ret = NoRet
    /\ issued = [a \in Addrs |-> NoCode]
    /\ refreshed = [a \in Addrs |-> Never]
    /\ evicted = {}
    /\ dropped = {}

\* The sweep, every send_to_target(..).unwrap() of the ping loop succeeding.
UdpSweep ==
    /\ pc = "sweep"
    /\ LET due == {i \in DOMAIN host_register : should_send_ping(host_register[i], now)}
           reg1 == PingLoop(host_register, now)
           gone == {i \in DOMAIN reg1 : reg1[i].delete_later}
           goneAddrs == TimedOut(reg1)
       IN /\ \E q \in Orders(due) :
                 sent' = [k \in 1..Cardinality(due) |->
                              Send(host_register[q[k]].addr, PingResponse)]
          /\ ret' = IF due = {} THEN ret
                    ELSE UdpSocket_send_to_target(DataLen(PingResponse), TRUE)
          /\ host_map' = MapAfterPingLoop(host_map, reg1)
          /\ host_register' = Retain(reg1)
          /\ issued' = [a \in Addrs |-> IF a \in goneAddrs THEN NoCode ELSE issued[a]]
          /\ refreshed' = [a \in Addrs |-> IF a \in goneAddrs THEN Never ELSE refreshed[a]]
          /\ evicted' = evicted \cup gone
    /\ pc' = "poll"
    /\ UNCHANGED <<dropped, peers, peer_activity_map, now, event>>

\* The ping loop's k-th send_to_target returns Err and unwrap panics
\* (main.rs:33-34); the registers are shown as the sweep found them.
UdpSweepSendFails ==
    /\ pc = "sweep"
    /\ LET due == {i \in DOMAIN host_register : should_send_ping(host_register[i], now)}
       IN \E q \in Orders(due), k \in 1..Cardinality(due) :
              sent' = [j \in 1..k |-> Send(host_register[q[j]].addr, PingResponse)]
    /\ ret' = UdpSocket_send_to_target(DataLen(PingResponse), FALSE)
    /\ pc' = "panicked"
    /\ UNCHANGED <<dropped, host_register, host_map, peers, peer_activity_map, now, event,
                   issued, refreshed, evicted>>

\* proto.rs:71-79: try_recv_from has no datagram, poll_messages returns Err and
\* main.rs:60-63 continues.
UdpPollNone ==
    /\ pc = "poll"
    /\ pc' = "sweep"
    /\ event' = NoEvent
    /\ sent' = <<>>
    /\ UNCHANGED <<dropped, host_register, host_map, peers, peer_activity_map, now, ret,
                   issued, refreshed, evicted>>

\* A datagram p from a is polled and dispatched, every send succeeding.
UdpRecv(a, p) ==
    /\ pc = "poll"
    /\ \E d \in Draws(host_register, host_map, a, p) :
          LET r == Dispatch(host_register, host_map, peer_activity_map, a, now, p,
                            d[1], d[2])
          IN /\ host_register' = r.reg
             /\ host_map' = r.map
             /\ peer_activity_map' = r.act
             /\ sent' = r.out
             /\ ret' = IF r.out = <<>> THEN ret
                       ELSE UdpSocket_send_to_target(DataLen(r.out[Len(r.out)].msg), TRUE)
             /\ History(a, p, r, now)
    /\ pc' = "sweep"
    /\ event' = [type |-> "receive", addr |-> a, packet |-> p]
    /\ UNCHANGED <<dropped, peers, now>>

\* The handler's k-th send_to_target returns Err and unwrap panics (main.rs:89-90,
\* 128-129, 144-145, 161-162, 167-168); every handler writes its registers before it sends.
UdpRecvSendFails(a, p) ==
    /\ pc = "poll"
    /\ \E d \in Draws(host_register, host_map, a, p) :
          LET r == Dispatch(host_register, host_map, peer_activity_map, a, now, p,
                            d[1], d[2])
          IN /\ \E k \in 1..Len(r.out) :
                   /\ sent' = SubSeq(r.out, 1, k)
                   /\ ret' = UdpSocket_send_to_target(DataLen(r.out[k].msg), FALSE)
             /\ host_register' = r.reg
             /\ host_map' = r.map
             /\ peer_activity_map' = r.act
             /\ History(a, p, r, now)
    /\ pc' = "panicked"
    /\ event' = [type |-> "receive", addr |-> a, packet |-> p]
    /\ UNCHANGED <<dropped, peers, now>>

\* The packets of the smaller specifications: text that is no JSON, and one
\* request to each handler.
CorePackets ==
    {p \in Packets :
        \/ p.len # 0 /\ p.utf8 /\ ~p.wellformed
        \/ /\ \E name \in Handled : MsgTypeIs(p, name)
           /\ CodeOf(p) \in {"", "1A"}
           /\ MsgTypeIs(p, "HostLookupRequest") => CodeOf(p) = "1A"}
UdpNext ==
    \/ AdvanceTime
    \/ UdpSweep
    \/ UdpSweepSendFails
    \/ UdpPollNone
    \/ \E a \in Addrs, p \in CorePackets : UdpRecv(a, p)
    \/ \E a \in Addrs, p \in CorePackets : UdpRecvSendFails(a, p)
UdpSpec == UdpInit /\ [][UdpNext]_vars

\* C12: a send_to_target that reports failure, on either transport, never
\* terminates the main loop: the loop goes on to its next step.
C12_SendFailureNotFatal == ret = Err => pc # "panicked"

\* ------------------------------------------- a packet longer than main's buf
\* A packet one byte longer than buf (its content plays no part).
Oversize == [len |-> BUF_SIZE + 1, utf8 |-> TRUE, wellformed |-> FALSE, value |-> JNull]

\* Event::Receive with data.len() > buf.len(): buf[..data.len()] at proto.rs:197
\* is out of range and panics, before the activity is recorded; the Ok/Err of
\* poll_messages that main.rs:60 unwraps is never produced.
RecvOversize(a) ==
    /\ pc = "poll"
    /\ a \in peers
    /\ Oversize.len > BUF_SIZE
    /\ pc' = "panicked"
    /\ event' = [type |-> "receive", addr |-> a, packet |-> Oversize]
    /\ sent' = <<>>
    /\ UNCHANGED <<dropped, host_register, host_map, peers, peer_activity_map, now, ret,
                   issued, refreshed, evicted>>

OversizeNext ==
    \/ AdvanceTime
    \/ check_and_cleanup_clients
    \/ Sweep
    \/ PollNone
    \/ \E a \in Addrs : PollConnect(a)
    \/ \E a \in Addrs : PollDisconnect(a)
    \/ \E a \in Addrs, p \in CorePackets : RecvDropped(a, p)
    \/ \E a \in Addrs, p \in CorePackets : RecvPing(a, p)
    \/ \E a \in Addrs, p \in CorePackets : RecvRegister(a, p)
    \/ \E a \in Addrs, p \in CorePackets : RecvLookup(a, p)
    \/ \E a \in Addrs : RecvOversize(a)
OversizeSpec == Init /\ [][OversizeNext]_vars

\* C13: no inbound message, whatever its length and content, terminates the
\* main loop: after a Receive event the loop is at its next tick.
C13_InboundNeverFatal == event.type = "receive" => pc # "panicked"

\* C14: peer_activity_map holds no entry for the address of a registered host,
\* for as long as the host stays registered and whatever it sends.
C14_NoActivityForHosts ==
    \A a \in DOMAIN host_map : a \notin DOMAIN peer_activity_map

\* C15: a sweep sends one PingResponse to each host whose last_sent_ping is
\* more than the ping interval old, and sets that host's last_sent_ping to the
\* current time; it sends nothing else and leaves the other hosts'
\* last_sent_ping alone.  No other step changes last_sent_ping (a PingRequest
\* reply does not), and a new host starts with last_sent_ping at its
\* registration time: so sweep pings to one host are more than the interval
\* apart, and the first comes more than the interval after registration.
SweepStep == pc = "sweep" /\ pc' = "poll"
C15_PingSchedule ==
    [][/\ SweepStep =>
          /\ \A i \in DOMAIN host_register :
                LET h == host_register[i]
                    due == now - h.last_sent_ping > PING_INTERVAL
                IN /\ Cardinality({k \in 1..Len(sent') : sent'[k].to = h.addr})
                         = IF due THEN 1 ELSE 0
                   /\ i \in DOMAIN host_register' =>
                         host_register'[i].last_sent_ping =
                             IF due THEN now ELSE h.last_sent_ping
          /\ \A k \in 1..Len(sent') :
                /\ sent'[k].msg = PingResponse
                /\ \E i \in DOMAIN host_register : sent'[k].to = host_register[i].addr
       /\ ~SweepStep =>
          \A i \in DOMAIN host_register' :
              host_register'[i].last_sent_ping =
                  IF i \in DOMAIN host_register
                  THEN host_register[i].last_sent_ping ELSE now]_vars
\* A sweep has pinged one host for the second time and left out another whose
\* last_sent_ping is exactly the ping interval old.
C15_Witness ==
    /\ pc = "poll"
    /\ \E i, j \in DOMAIN host_register :
          /\ sent = <<Send(host_register[i].addr, PingResponse)>>
          /\ host_register[i].last_sent_ping = now
          /\ host_register[i].last_received_ping < now
          /\ now > 2 * PING_INTERVAL
          /\ i # j
          /\ now - host_register[j].last_sent_ping = PING_INTERVAL

\* C16: when a sweep evicts a host, the peer with the host's address is
\* disconnected in that sweep, and after the sweep peer_activity_map holds no
\* entry for that address.
C16_EvictionDropsPeer ==
    [][SweepStep =>
          \A i \in (DOMAIN host_register) \ (DOMAIN host_register') :
              /\ host_register[i].addr \notin peers'
              /\ host_register[i].addr \notin DOMAIN peer_activity_map']_vars

\* C17: a HostLookupRequest leaves host_register and host_map exactly as they
\* were (every host's timestamps and delete_later included), whether the
\* lookup hits or misses and whoever asks.
C17_LookupReadsOnly ==
    [][Dispatching("HostLookupRequest")
       => /\ host_register' = host_register
          /\ host_map' = host_map]_vars
\* A registered host has looked up a registered code some time after that
\* code's host was last refreshed, and got the two replies of a hit.
C17_Witness ==
    /\ Dispatched("HostLookupRequest")
    /\ event.addr \in DOMAIN host_map
    /\ CodeOf(event.packet) \in DOMAIN host_register
    /\ host_register[CodeOf(event.packet)].last_received_ping < now
    /\ host_register[CodeOf(event.packet)].last_received_ping > 0
    /\ Len(sent) = 2

\* C18: the loop moves cleanup, sweep, poll, and round again, so a sweep runs
\* between any two polls and each poll dispatches the one event it returned.
\* The sweep is complete: it leaves no host that is due a ping, timed out or
\* marked delete_later; so no handler starts from, or leaves, a host with
\* delete_later set.
C18_TickOrder ==
    [][/\ pc' # pc => \/ pc = "cleanup" /\ pc' = "sweep"
                      \/ pc = "sweep" /\ pc' = "poll"
                      \/ pc = "poll" /\ pc' = "cleanup"
       /\ SweepStep =>
             \A i \in DOMAIN host_register' :
                 /\ ~host_register'[i].delete_later
                 /\ now - host_register'[i].last_received_ping < PEER_REMOVAL_TIMEMOUT
                 /\ now - host_register'[i].last_sent_ping <= PING_INTERVAL
                 /\ host_register'[i].addr \in DOMAIN host_map'
       /\ (pc = "poll" /\ pc' = "cleanup") =>
             /\ \A i \in DOMAIN host_register : ~host_register[i].delete_later
             /\ \A i \in DOMAIN host_register' : ~host_register'[i].delete_later
             /\ sent' # <<>> => event'.type = "receive"]_vars
\* A PingRequest was dispatched after a sweep had evicted a host: the handler
\* found the sender in neither map, while another host is still registered.
C18_Witness ==
    /\ Dispatched("PingRequest")
    /\ evicted # {}
    /\ evicted \cap DOMAIN host_register = {}
    /\ event.addr \notin DOMAIN host_map
    /\ issued[event.addr] = NoCode
    /\ DOMAIN host_register # {}
    /\ \A i \in DOMAIN host_register : ~host_register[i].delete_later
    /\ sent = <<>>

\* C19: a connected peer that owns no host always has an activity entry, set
\* to the current time by its Connect event and by every packet received from
\* it.  check_and_cleanup_clients disconnects such a peer and removes its
\* entry when the entry is more than the removal timeout old, and leaves the
\* peer connected, entry untouched, when it is at most that old.
CleanupStep == pc = "cleanup" /\ pc' = "sweep"
C19_IdlePeerCleanup ==
    /\ [](\A a \in peers \ DOMAIN host_map : a \in DOMAIN peer_activity_map)
    /\ [][/\ (/\ pc = "poll" /\ pc' = "cleanup"
              /\ event'.type \in {"connect", "receive"}
              /\ event'.addr \notin DOMAIN host_map')
             => /\ event'.addr \in DOMAIN peer_activity_map'
                /\ peer_activity_map'[event'.addr] = now
          /\ CleanupStep =>
                \A a \in (peers \ DOMAIN host_map) \cap DOMAIN peer_activity_map :
                    IF now - peer_activity_map[a] > PEER_REMOVAL_TIMEMOUT
                    THEN /\ a \notin peers'
                         /\ a \notin DOMAIN peer_activity_map'
                    ELSE /\ a \in peers'
                         /\ a \in DOMAIN peer_activity_map'
                         /\ peer_activity_map'[a] = peer_activity_map[a]]_vars
\* A cleanup has disconnected a peer that owns no host and has kept another
\* whose last activity is exactly the removal timeout old.
C19_Witness ==
    /\ pc = "sweep"
    /\ \E a \in dropped :
          /\ a \notin DOMAIN host_map
          /\ issued[a] = NoCode
          /\ a \notin peers
          /\ a \notin DOMAIN peer_activity_map
    /\ \E b \in peers \ DOMAIN host_map :
          now - peer_activity_map[b] = PEER_REMOVAL_TIMEMOUT

\* ----------------------------------- the two clock readings of one Receive
\* poll_messages stamps the activity entry with one SystemTime::now()
\* (proto.rs:207-208) and the handler stamps the host with another, later one
\* (main.rs:85, 102, 109).  The clock of the model is coarse: a delay of d stands
\* for whatever time passes between the two readings.
MaxDelay == 2
Delays == {k * TimeStep : k \in 1..MaxDelay}

RecvLate(a, p, d) ==
    /\ pc = "poll"
    /\ a \in peers
    /\ now + d <= MaxTime
    /\ \E dr \in Draws(host_register, host_map, a, p) :
          LET r == Dispatch(host_register, host_map, Insert(peer_activity_map, a, now),
                            a, now + d, p, dr[1], dr[2])
          IN /\ host_register' = r.reg
             /\ host_map' = r.map
             /\ peer_activity_map' = r.act
             /\ sent' = r.out
             /\ History(a, p, r, now + d)
    /\ now' = now + d
    /\ pc' = "cleanup"
    /\ event' = [type |-> "receive", addr |-> a, packet |-> p]
    /\ UNCHANGED <<dropped, peers, ret>>

SkewNext ==
    \/ AdvanceTime
    \/ check_and_cleanup_clients
    \/ Sweep
    \/ PollNone
    \/ \E a \in Addrs : PollConnect(a)
    \/ \E a \in Addrs : PollDisconnect(a)
    \/ \E a \in Addrs, p \in CorePackets : RecvPing(a, p)
    \/ \E a \in Addrs, p \in CorePackets : RecvRegister(a, p)
    \/ \E a \in Addrs, p \in CorePackets, d \in Delays : RecvLate(a, p, d)
SkewSpec == Init /\ [][SkewNext]_vars

\* C20: a peer that check_and_cleanup_clients disconnects while its address
\* owns a registered host loses that host in the sweep of the same tick: the
\* cleanup never takes the connection of a host that stays registered.
C20_CleanupSparesHosts ==
    [][SweepStep =>
          \A a \in dropped \cap DOMAIN host_map :
              /\ a \notin DOMAIN host_map'
              /\ host_map[a] \notin DOMAIN host_register']_vars

====
